---- MODULE Spec2Model ----
(***************************************************************************)
(* Model of deep_research.py: the Completion Client (GroqAgent), the       *)
(* Structured Extractor (StructuredGroqAgent), the Orchestrator            *)
(* (ResearchManager) and the request handlers of the form.                 *)
(*                                                                         *)
(* Text is a sequence of tokens.  The tokens that matter to the code are   *)
(*   "FJ"  the characters ```json          "F"   the characters ```        *)
(*   "W"   white space                     "LB"  a stray {                 *)
(*   "RB"  a stray }                       "P"   any other prose           *)
(*   "O_*" the text of one complete JSON object (see ObjData)              *)
(*   "OH","OT" head and tail of the text of a JSON object one of whose     *)
(*         strings holds ``` : the object's text is "OH","F","OT".         *)
(* A Python value that may be None is a record [kind, text].               *)
(***************************************************************************)
EXTENDS Integers, Sequences, FiniteSets, TLC

\* ------------------------------------------------------------ bounds ----
MaxRespLen == 3      \* longest response text (in atoms) in the extractor specification
PipeRespLen == 1     \* longest planner/writer response text (in atoms) in a request
ConcRespLen == 0     \* the same, in the specification of concurrent requests

\* ------------------------------------------------- program constants ----
SourceSliceLen == 300

\* ------------------------------------------------------ Python values ---
None == [kind |-> "none", text |-> <<>>]
Str(s) == [kind |-> "str", text |-> s]

Min(a, b) == IF a < b THEN a ELSE b

\* s[:n]
Slice(s, n) == SubSeq(s, 1, Min(n, Len(s)))

\* str.strip()
RECURSIVE LStrip(_)
LStrip(s) == IF s = <<>> THEN s ELSE IF Head(s) = "W" THEN LStrip(Tail(s)) ELSE s

RECURSIVE RStrip(_)
RStrip(s) == IF s = <<>> THEN s
             ELSE IF s[Len(s)] = "W" THEN RStrip(SubSeq(s, 1, Len(s) - 1)) ELSE s

Strip(s) == RStrip(LStrip(s))

\* needle in s (substring test)
Contains(s, needle) ==
    \E i \in 1..(Len(s) - Len(needle) + 1) : SubSeq(s, i, i + Len(needle) - 1) = needle

\* position of the first token of s after position k that lies in S, 0 if none
FirstAfter(s, S, k) ==
    IF \E i \in (k+1)..Len(s) : s[i] \in S
    THEN CHOOSE i \in (k+1)..Len(s) : s[i] \in S /\ \A j \in (k+1)..(i-1) : s[j] \notin S
    ELSE 0

\* position of the last token of s that lies in S, 0 if none
LastIn(s, S) ==
    IF \E i \in 1..Len(s) : s[i] \in S
    THEN CHOOSE i \in 1..Len(s) : s[i] \in S /\ \A j \in (i+1)..Len(s) : s[j] \notin S
    ELSE 0

\* ------------------------------------------------------- JSON objects ---
Task(q, r) == [query |-> q, reason |-> r]

NoFields == [hasProperties |-> FALSE, hasType |-> FALSE,
             searchesOK |-> FALSE, searches |-> <<>>,
             reportOK |-> FALSE, title |-> <<>>, short_summary |-> <<>>,
             markdown_report |-> <<>>, follow_up_questions |-> <<>>]

PlanTasks == << Task(<<"q1">>, <<"r1">>), Task(<<"q2">>, <<"r2">>) >>
TickTasks == << Task(<<"q3", "F", "q4">>, <<"r3">>) >>

PlanFields(ts) == [NoFields EXCEPT !.searchesOK = TRUE, !.searches = ts]
ReportFields(qs) == [NoFields EXCEPT !.reportOK = TRUE, !.title = <<"T">>,
                        !.short_summary = <<"sum">>, !.markdown_report = <<"body">>,
                        !.follow_up_questions = qs]
Echo(d) == [d EXCEPT !.hasProperties = TRUE, !.hasType = TRUE]

\* what json.loads yields for the text of each object token
ObjData(o) ==
    CASE o = "O_plan"       -> PlanFields(PlanTasks)
      [] o = "O_plan0"      -> PlanFields(<<>>)
      [] o = "O_planTick"   -> PlanFields(TickTasks)
      [] o = "O_planProps"  -> [PlanFields(PlanTasks) EXCEPT !.hasProperties = TRUE]
      [] o = "O_planEcho"   -> Echo(PlanFields(PlanTasks))
      [] o = "O_schema"     -> Echo(NoFields)
      [] o = "O_bad"        -> NoFields
      [] o = "O_report"     -> ReportFields(<< <<"fq1">>, <<"fq2">> >>)
      [] o = "O_report0"    -> ReportFields(<<>>)
      [] o = "O_reportEcho" -> Echo(ReportFields(<< <<"fq1">> >>))

\* object tokens whose text is one token, and the one whose text holds a fence
Objects == {"O_plan", "O_plan0", "O_planProps", "O_planEcho", "O_schema", "O_bad",
            "O_report", "O_report0", "O_reportEcho"}
TickText == <<"OH", "F", "OT">>

OpenBrace == Objects \cup {"LB", "OH"}     \* tokens holding a {
CloseBrace == Objects \cup {"RB", "OT"}    \* tokens holding a }
Fences == {"F", "FJ"}                      \* tokens holding ```

\* json.loads(json_str): ok with the object, or JSONDecodeError
json_loads(s) ==
    LET t == Strip(s) IN
    IF Len(t) = 1 /\ t[1] \in Objects THEN [ok |-> TRUE, data |-> ObjData(t[1])]
    ELSE IF t = TickText THEN [ok |-> TRUE, data |-> ObjData("O_planTick")]
    ELSE [ok |-> FALSE, data |-> NoFields]

\* re.search(r'```json\s*(.*?)\s*```', s, re.DOTALL): group(1) or no match
SearchJsonFence(s) ==
    LET i == FirstAfter(s, {"FJ"}, 0)
        j == IF i = 0 THEN 0 ELSE FirstAfter(s, Fences, i)
    IN IF j = 0 THEN None ELSE Str(Strip(SubSeq(s, i + 1, j - 1)))

\* re.search(r'```\s*(.*?)\s*```', s, re.DOTALL): group(1) or no match
SearchAnyFence(s) ==
    LET i == FirstAfter(s, Fences, 0)
        j == IF i = 0 THEN 0 ELSE FirstAfter(s, Fences, i)
    IN IF j = 0 THEN None ELSE Str(Strip(SubSeq(s, i + 1, j - 1)))

\* re.search(r'\{.*\}', s, re.DOTALL): group(0) or no match (greedy: first { to last })
SearchBraces(s) ==
    LET i == FirstAfter(s, OpenBrace, 0)
        j == LastIn(s, CloseBrace)
    IN IF i = 0 \/ j = 0 \/ j < i \/ (j = i /\ s[i] \notin Objects)
       THEN None ELSE Str(SubSeq(s, i, j))

\* json_str.startswith('{')
StartsWithBrace(s) == s # <<>> /\ Head(s) \in OpenBrace

\* --------------------------------------------------- Completion Client ---
\* One remote call: the service answers with message.content (a text or null),
\* or the call raises with message msg.
Reply(content) == [kind |-> "ok", content |-> content, msg |-> <<>>]
Failure(msg) == [kind |-> "raise", content |-> None, msg |-> msg]

\* mutant: the except branch logs and falls off the end (returns None)
run_NoReturn(outcome) ==
    IF outcome.kind = "ok" THEN outcome.content ELSE None

\* GroqAgent.run: the content on success, "Error: <e>" when the call raises
run(outcome) ==
    IF outcome.kind = "ok" THEN outcome.content
    ELSE Str(<<"Error:">> \o outcome.msg)

\* ------------------------------------------------ Structured Extractor ---
Plain == [kind |-> "str", raised |-> FALSE, path |-> "none",
          searches |-> <<>>, title |-> <<>>, short_summary |-> <<>>,
          markdown_report |-> <<>>, follow_up_questions |-> <<>>]

\* WebSearchPlan(searches=...)
WebSearchPlan(ts) == [Plain EXCEPT !.kind = "WebSearchPlan", !.searches = ts]

\* ReportData(title=..., short_summary=..., markdown_report=..., follow_up_questions=...)
ReportData(t, s, m, f) ==
    [Plain EXCEPT !.kind = "ReportData", !.title = t, !.short_summary = s,
                  !.markdown_report = m, !.follow_up_questions = f]

\* an exception leaving the function
Raised == [Plain EXCEPT !.kind = "raised", !.raised = TRUE]

FallbackPlanTasks(user_input) ==
    << Task(user_input \o <<"overview">>, <<"Get general information">>),
       Task(user_input \o <<"recent developments">>, <<"Get latest updates">>),
       Task(user_input \o <<"analysis">>, <<"Get detailed analysis">>) >>

FallbackQuestions(user_input) ==
    << <<"What are the latest developments in">> \o user_input,
       <<"How does">> \o user_input \o <<"impact different industries?">>,
       <<"What are future trends for">> \o user_input >>

FallbackReport(user_input) ==
    ReportData(<<"Research Report:">> \o user_input,
               <<"Research analysis completed with available information.">>,
               <<"# Research Report:">> \o user_input
                   \o <<"## Overview", "This report provides analysis on">> \o user_input
                   \o <<"based on available research.", "## Key Findings", "## Conclusion">>,
               FallbackQuestions(user_input))

\* StructuredGroqAgent._create_fallback_response
create_fallback_response(schema, user_input) ==
    [ (IF schema = "WebSearchPlan" THEN WebSearchPlan(FallbackPlanTasks(user_input))
       ELSE IF schema = "ReportData" THEN FallbackReport(user_input)
       ELSE [Plain EXCEPT !.title = <<"Fallback response for">> \o user_input])
      EXCEPT !.path = "fallback" ]

\* lines 97-121: the JSON text taken from the response, or the exception raised
\* on the way (AttributeError on a failed plain-fence search, ValueError when no
\* brace span is found)
ExtractJsonStr(response) ==
    LET s0 == Strip(response)
        s1 == IF Contains(s0, <<"FJ">>)
              THEN (LET m == SearchJsonFence(s0) IN IF m.kind = "str" THEN m ELSE Str(s0))
              ELSE IF \E i \in 1..Len(s0) : s0[i] \in Fences
                   THEN SearchAnyFence(s0)
                   ELSE Str(s0)
    IN IF s1.kind = "none" THEN [ok |-> FALSE, text |-> <<>>]
       ELSE LET s2 == Strip(s1.text) IN
            IF StartsWithBrace(s2) THEN [ok |-> TRUE, text |-> s2]
            ELSE LET m == SearchBraces(s2) IN
                 IF m.kind = "str" THEN [ok |-> TRUE, text |-> m.text]
                 ELSE [ok |-> FALSE, text |-> <<>>]

\* mutant: an object that also carries data fields is not taken for a schema
IsSchema_UnlessData(data) ==
    data.hasProperties /\ data.hasType /\ ~data.searchesOK /\ ~data.reportOK

\* mutant: "or" in place of "and"
IsSchema_Or(data) == data.hasProperties \/ data.hasType

\* line 127: "properties" in data and "type" in data
IsSchema(data) == data.hasProperties /\ data.hasType

\* line 132: self.output_schema(**data), or pydantic's ValidationError
Validates(schema, data) ==
    IF schema = "WebSearchPlan" THEN data.searchesOK
    ELSE IF schema = "ReportData" THEN data.reportOK
    ELSE FALSE

Build(schema, data) ==
    [ (IF schema = "WebSearchPlan" THEN WebSearchPlan(data.searches)
       ELSE ReportData(data.title, data.short_summary, data.markdown_report,
                       data.follow_up_questions))
      EXCEPT !.path = "parsed" ]

\* lines 136, 140: print(f"Raw response: {response[:500]}...") raises TypeError on None
LogRawResponseRaises(response) == response.kind = "none"

\* StructuredGroqAgent.run_structured, given what self.run returned
run_structured(schema, user_input, response) ==
    IF response.kind = "none"
    THEN \* response.strip() raises AttributeError, handled by "except Exception"
         IF LogRawResponseRaises(response) THEN Raised
         ELSE create_fallback_response(schema, user_input)
    ELSE LET j == ExtractJsonStr(response.text) IN
         IF ~j.ok
         THEN IF LogRawResponseRaises(response) THEN Raised
              ELSE create_fallback_response(schema, user_input)
         ELSE LET p == json_loads(j.text) IN
              IF ~p.ok
              THEN IF LogRawResponseRaises(response) THEN Raised
                   ELSE create_fallback_response(schema, user_input)
              ELSE IF IsSchema(p.data)
              THEN create_fallback_response(schema, user_input)
              ELSE IF Validates(schema, p.data) THEN Build(schema, p.data)
              ELSE IF LogRawResponseRaises(response) THEN Raised
                   ELSE create_fallback_response(schema, user_input)

\* ------------------------------------------------------ response texts ---
Atoms == {"FJ", "F", "W", "P", "LB", "RB"} \cup Objects \cup {"O_planTick"}

ExpandAtom(a) == IF a = "O_planTick" THEN TickText ELSE <<a>>

RECURSIVE Expand(_)
Expand(as) == IF as = <<>> THEN <<>> ELSE ExpandAtom(Head(as)) \o Expand(Tail(as))

SeqsUpTo(S, n) == UNION { [1..k -> S] : k \in 0..n }

\* the texts a completion call may answer with, of at most n atoms
Texts(n) == { Expand(as) : as \in SeqsUpTo(Atoms, n) }

\* the messages a failed call may carry: plain prose, or prose with a JSON body
ErrMsgs == { <<"P">>, <<"P", "O_bad">> }

Outcomes(n) == { Reply(Str(t)) : t \in Texts(n) } \cup { Reply(None) }
                  \cup { Failure(m) : m \in ErrMsgs }

\* ------------------------------------------------------------- state ----
VARIABLES
    pc,              \* "boot", "crashed", "serving" (form idle), "plan", "search", "write"
    envKey,          \* os.environ holds a non-empty GROQ_API_KEY
    query,           \* the topic of the request in progress / last request
    trace_id,        \* run_async_research: trace_id
    result,          \* run_async_research: result (the markdown being assembled)
    search_plan,     \* run_async_research: search_plan.searches
    search_results,  \* perform_searches: results
    report,          \* run_async_research: report (what write_report returned)
    display,         \* the form's report_output: the handler's return value, or the
                     \* progress indicator while the handler runs (show_progress)
    loop,            \* the request's event loop: "none", "open", "closed"
    stages,          \* history: the stages started by the request, in order
    calls,           \* history: the completion calls of the request, in order
    searched,        \* history: the queries given to WebSearcher.search, in order
    planRaised,      \* history: plan_searches raised into run_async_research
    writeRaised,     \* history: write_report raised into run_async_research
    served,          \* history: which return statement ended the last request
    planPath,        \* history: how the Plan stage got its plan: "parsed", "fallback", "raised"
    searchRaised,    \* history: the tasks (positions) whose summarizing raised
    textbox,         \* the form's query_textbox
    event,           \* history: the handler that ran last: "none", "research", "clear"
    before,          \* history: what preceded the request: "first", "run", "clear",
                     \*          "run and clear"
    req,             \* concurrent requests: the locals of each worker thread's request
    xSchema, xInput, xOutcome, xResponse, xResult, xDone   \* extractor harness

pipeVars == <<pc, envKey, query, trace_id, result, search_plan, search_results, report,
              display, loop, stages, calls, searched, planRaised, writeRaised, served,
              planPath, searchRaised, textbox, event, before>>
xVars == <<xSchema, xInput, xOutcome, xResponse, xResult, xDone>>
cVars == <<req>>
vars == <<pipeVars, xVars, cVars>>

\* ------------------------------------------------------ request inputs ---
Topic1 == <<"solar energy">>
Topic2 == <<"W", "ai">>
Queries == {None, Str(<<>>), Str(<<"W">>), Str(Topic1), Str(Topic2)}
TraceIds == {"id1", "id2"}

\* the summarizer's remote call: a summary of the prompt's query, null, or a failure
SummaryOutcomes(item) ==
    {Reply(Str(<<"Summary of">> \o item.query)), Reply(None), Failure(<<"P">>)}

\* ------------------------------------------------------------ messages ---
WelcomeMsg == <<"# Welcome to Deep Research Agent">>
InputRequiredMsg == <<"## Input Required", "Please enter a research topic to get started.",
                      "Example">>
ConfigErrorMsg == <<"## Configuration Error", "Missing API Key">>
InputRequiredMsg2 == <<"## Input Required", "Please enter a research topic to get started.">>
MissingKeyMsg == <<"## Missing API Key">>
ReadyMsg == <<"# Ready for Your Next Research">>
ResearchErrorMsg(e) == <<"## Research Error", "Error:", e, "Troubleshooting:">>

SessionHeading(id) == <<"Research Session:", id, "---">>
PlanHeading == <<"## Planning Research Strategy">>
SearchHeading == <<"## Executing Research Searches">>
WriteHeading == <<"## Generating Comprehensive Report">>
FinalHeading == <<"## Final Research Report">>
FollowUpHeading == <<"## Suggested Follow-up Questions">>

\* str(x) of a value that may be None
PyStr(v) == IF v.kind = "none" THEN <<"None">> ELSE v.text

\* ------------------------------------------------------- Orchestrator ----
PlanLine(i, search) == <<ToString(i)>> \o search.query \o <<"-">> \o search.reason
QuestionLine(i, question) == <<ToString(i)>> \o question
SourceLabel(i, r) == <<"Source", ToString(i)>> \o PyStr(r)

\* lines 337-338: search_result[:300] raises TypeError when a summary is None
SourceEntry(i, r) == <<"### Source", ToString(i)>> \o Slice(r.text, SourceSliceLen) \o <<"...">>

\* the line a loop writes for its i-th element
Line(loop_, i, x) ==
    CASE loop_ = "plan" -> PlanLine(i, x)
      [] loop_ = "questions" -> QuestionLine(i, x)
      [] loop_ = "sources" -> SourceLabel(i, x)
      [] loop_ = "entries" -> SourceEntry(i, x)

\* lines 281-282 / 324-325 / 337-338 / 378: the lines of "for i, x in enumerate(xs, 1)"
RECURSIVE Numbered(_, _, _)
Numbered(loop_, xs, i) ==
    IF i > Len(xs) THEN <<>> ELSE Line(loop_, i, xs[i]) \o Numbered(loop_, xs, i + 1)

\* ResearchManager.plan_searches: what it returns, or raised
plan_searches(q, response) ==
    LET r == run_structured("WebSearchPlan", <<"Create a search plan for:">> \o q, response)
    IN IF r.raised THEN r
       ELSE IF r.kind = "WebSearchPlan" THEN r
       ELSE WebSearchPlan(<< Task(q \o <<"overview">>, <<"Get general information">>),
                             Task(q \o <<"recent developments">>, <<"Get latest updates">>),
                             Task(q \o <<"statistics">>, <<"Get quantitative data">>) >>)

\* mutant: the backup plan is built from the planner's prompt
BackupPlan_FromPrompt(q) == FallbackPlanTasks(<<"Create a search plan for:">> \o q)

\* lines 288-292: the backup plan of the Plan stage's handler
BackupPlan(q) ==
    << Task(q \o <<"overview">>, <<"General information">>),
       Task(q \o <<"trends 2024">>, <<"Current trends">>),
       Task(q \o <<"analysis">>, <<"Detailed analysis">>) >>

\* lines 277-294: the Plan stage of run_async_research
PlanStageText(planned) ==
    IF planned.raised
    THEN <<"Planning issue:", "TypeError", "Using backup search plan...">>
    ELSE <<"Search Plan Created", ToString(Len(planned.searches))>>
             \o Numbered("plan", planned.searches, 1)

\* WebSearcher.search
WebSearch(q) == <<"Research findings for">> \o q

\* SearchAgent.search_and_summarize: the prompt sent, and the summary returned
SummaryPrompt(item) ==
    <<"Search Query:">> \o item.query \o <<"Purpose:">> \o item.reason
        \o <<"Search Results:">> \o WebSearch(item.query)
search_and_summarize(item, outcome) == run(outcome)

\* search_and_summarize raises: never, WebSearcher.search always returns and
\* GroqAgent.run turns every exception of the call into a string
SummarizeRaises(item, outcome) == FALSE

\* line 369: the placeholder of perform_searches' handler
SearchPlaceholder(item) ==
    Str(<<"Research summary for">> \o item.query
          \o <<": Key information gathered from available sources.">>)

\* mutant: the loop takes the tasks last to first
NextTask_Reversed(plan, results) == plan[Len(plan) - Len(results)]

\* line 363: the loop takes the tasks in plan order
NextTask(plan, results) == plan[Len(results) + 1]

\* mutant: the placeholder replaces the summary of a failed call
perform_searches_PlaceholderOnError(item, outcome) ==
    IF SummarizeRaises(item, outcome) \/ outcome.kind = "raise" THEN SearchPlaceholder(item)
    ELSE search_and_summarize(item, outcome)

\* lines 364-369: the entry perform_searches appends for one task
perform_searches(item, outcome) ==
    IF SummarizeRaises(item, outcome) THEN SearchPlaceholder(item)
    ELSE search_and_summarize(item, outcome)

\* one completion call, as the request's history records it (no retry: one entry)
CallLog(agent, outcome) == << [agent |-> agent, failed |-> outcome.kind = "raise"] >>

\* mutant: the text starts from what the previous request left behind
StartResult_Appends(id) == result \o SessionHeading(id) \o PlanHeading

\* lines 271-275: the text run_async_research starts from
StartResult(id) == SessionHeading(id) \o PlanHeading

\* lines 301, 308: the narration when perform_searches returned, up to the writer's call
SearchCompleteText(n) == <<"Research Complete", ToString(n), "---">> \o WriteHeading

\* ResearchManager.write_report: the writer's input text
WriterInput(q, results) ==
    <<"Research Query:">> \o q \o <<"Research Findings:">>
        \o Numbered("sources", results, 1)
        \o <<"Create a comprehensive research report in JSON format.">>

write_report(q, results, response) ==
    run_structured("ReportData", WriterInput(q, results), response)

\* mutant: the follow-up heading is written without testing the list
RenderReport_NoTest(rep) ==
    <<"Report Generation Complete", "---">> \o FinalHeading
      \o (IF rep.kind = "ReportData"
          THEN rep.markdown_report \o <<"---">> \o FollowUpHeading
                 \o Numbered("questions", rep.follow_up_questions, 1)
          ELSE rep.title)

\* lines 312-327: the text added when write_report returned
RenderReport(rep) ==
    <<"Report Generation Complete", "---">> \o FinalHeading
      \o (IF rep.kind = "ReportData"
          THEN rep.markdown_report
                 \o (IF rep.follow_up_questions # <<>>
                     THEN <<"---">> \o FollowUpHeading
                            \o Numbered("questions", rep.follow_up_questions, 1)
                     ELSE <<>>)
          ELSE rep.title)

\* mutant: the handler also renders the Extractor's fallback report
RenderWriteFailure_WithFallback(q, results) ==
    IF \E i \in 1..Len(results) : results[i].kind = "none"
    THEN [raised |-> TRUE, text |-> <<>>]
    ELSE [raised |-> FALSE,
          text |-> <<"Report generation issue:", "TypeError", "## Research Summary for:">>
                     \o q \o <<"Research completed with available data.", "Search Results:">>
                     \o Numbered("entries", results, 1)
                     \o FinalHeading \o FallbackReport(q).markdown_report]

\* lines 329-338: the text added when write_report raised, or raised again
RenderWriteFailure(q, results) ==
    IF \E i \in 1..Len(results) : results[i].kind = "none"
    THEN [raised |-> TRUE, text |-> <<>>]
    ELSE [raised |-> FALSE,
          text |-> <<"Report generation issue:", "TypeError", "## Research Summary for:">>
                     \o q \o <<"Research completed with available data.", "Search Results:">>
                     \o Numbered("entries", results, 1)]

\* lines 310-344: the Write stage and the return of run_async_research
WriteStageResult(res, q, results, rep) ==
    IF ~rep.raised THEN res \o RenderReport(rep)
    ELSE LET f == RenderWriteFailure(q, results) IN
         IF f.raised THEN ResearchErrorMsg("TypeError") ELSE res \o f.text

\* ------------------------------------------------------------ handlers ---
\* mutant: the test reads query == "" and lets None through
NotQuery_NoneSlips(q) == q.kind = "str" /\ q.text = <<>>

\* handle_research, line 973: not query
NotQuery(q) == q.kind = "none" \/ q.text = <<>>

\* mutant: the handler leaves the credential check to run_research_complete
handle_research_NoKeyCheck(q, key) ==
    IF NotQuery(q) THEN "input_required"
    ELSE IF q.kind = "none" THEN "raise"
    ELSE IF Strip(q.text) = <<>> THEN "input_required"
    ELSE "run_research_complete"

\* handle_research, lines 973-991: which return is taken ("raise": query.strip() on None)
handle_research(q, key) ==
    IF NotQuery(q) THEN "input_required"
    ELSE IF q.kind = "none" THEN "raise"
    ELSE IF Strip(q.text) = <<>> THEN "input_required"
    ELSE IF ~key THEN "config_error"
    ELSE "run_research_complete"

\* run_research_complete, lines 389-393: its own checks before the pipeline
run_research_complete(q, key) ==
    IF Strip(q.text) = <<>> THEN "input_required_2"
    ELSE IF ~key THEN "missing_key"
    ELSE "pipeline"

EarlyText(why) ==
    CASE why = "input_required" -> InputRequiredMsg
      [] why = "config_error" -> ConfigErrorMsg
      [] why = "input_required_2" -> InputRequiredMsg2
      [] why = "missing_key" -> MissingKeyMsg

\* handle_clear: the values for query_textbox and report_output
handle_clear == [textbox |-> Str(<<>>), output |-> ReadyMsg]

Shown(text) == [kind |-> "string", text |-> text]
Fault == [kind |-> "exception", text |-> <<>>]
InProgress == [kind |-> "progress", text |-> <<>>]

NoReport == [Plain EXCEPT !.kind = "pending"]

\* ------------------------------------------------------------- actions ---
\* Worker threads that serve requests at the same time (handle_research is a
\* plain function, so the server runs each call in a thread of its pool)
Threads == {1, 2}

\* the locals of one call of run_research_complete / run_async_research, before it starts
IdleReq ==
    [pc |-> "idle", query |-> None, trace_id |-> "none", result |-> <<>>,
     search_plan |-> <<>>, search_results |-> <<>>, report |-> NoReport,
     loop |-> "none", out |-> InProgress, served |-> "none",
     planRaised |-> FALSE, summaries |-> <<>>]

Init ==
    /\ pc = "boot"
    /\ envKey \in BOOLEAN
    /\ query = None
    /\ trace_id = "none"
    /\ result = <<>>
    /\ search_plan = <<>>
    /\ search_results = <<>>
    /\ report = NoReport
    /\ display = Shown(WelcomeMsg)
    /\ loop = "none"
    /\ stages = <<>>
    /\ calls = <<>>
    /\ searched = <<>>
    /\ planRaised = FALSE
    /\ writeRaised = FALSE
    /\ served = "none"
    /\ planPath = "none"
    /\ searchRaised = {}
    /\ textbox = Str(<<>>)
    /\ event = "none"
    /\ before = "first"
    /\ xSchema = "WebSearchPlan"
    /\ xInput = <<>>
    /\ xOutcome = Reply(None)
    /\ xResponse = None
    /\ xResult = NoReport
    /\ xDone = FALSE
    /\ req = [t \in Threads |-> IdleReq]

\* GroqAgent.__init__, line 27: the check each module-level agent makes
AgentInitRaises(key) == ~key

\* Import of the module (the three module-level agents) and the __main__ block
Startup ==
    /\ pc = "boot"
    /\ pc' = IF AgentInitRaises(envKey) THEN "crashed" ELSE "serving"
    /\ UNCHANGED <<envKey, query, trace_id, result, search_plan, search_results, report,
                   display, loop, stages, calls, searched, planRaised, writeRaised, served,
                   planPath, searchRaised, textbox, event, before>>
    /\ UNCHANGED xVars
    /\ UNCHANGED cVars

\* The process environment changes between two requests
EnvironChange ==
    /\ pc = "serving"
    /\ envKey' = ~envKey
    /\ UNCHANGED <<pc, query, trace_id, result, search_plan, search_results, report,
                   display, loop, stages, calls, searched, planRaised, writeRaised, served,
                   planPath, searchRaised, textbox, event, before>>
    /\ UNCHANGED xVars
    /\ UNCHANGED cVars

\* run_button.click / query_textbox.submit: handle_research up to its first await
Submit ==
    /\ pc = "serving"
    /\ \E q \in Queries, id \in TraceIds :
        LET h == handle_research(q, envKey)
            c == IF h = "run_research_complete" THEN run_research_complete(q, envKey) ELSE h
        IN /\ query' = q
           /\ textbox' = q
           /\ event' = "research"
           /\ before' = (IF event = "none" THEN "first"
                         ELSE IF event = "research" THEN "run"
                         ELSE IF served = "none" THEN "clear" ELSE "run and clear")
           /\ planPath' = "none"
           /\ searchRaised' = {}
           /\ search_plan' = <<>>
           /\ search_results' = <<>>
           /\ report' = NoReport
           /\ calls' = <<>>
           /\ searched' = <<>>
           /\ planRaised' = FALSE
           /\ writeRaised' = FALSE
           /\ IF c = "pipeline"
              THEN /\ pc' = "plan"
                   /\ loop' = "open"
                   /\ trace_id' = id
                   /\ result' = StartResult(id)
                   /\ stages' = <<"Plan">>
                   /\ served' = "none"
                   /\ display' = InProgress
              ELSE /\ pc' = "serving"
                   /\ loop' = "none"
                   /\ trace_id' = "none"
                   /\ result' = <<>>
                   /\ stages' = <<>>
                   /\ served' = c
                   /\ display' = IF c = "raise" THEN Fault ELSE Shown(EarlyText(c))
    /\ UNCHANGED envKey
    /\ UNCHANGED xVars
    /\ UNCHANGED cVars

\* The planner's call returns: lines 278-297, and line 301-308 when the plan is empty
PlanStage ==
    /\ pc = "plan"
    /\ \E o \in Outcomes(PipeRespLen) :
       \E planned \in {plan_searches(query.text, run(o))} :
       \E plan \in {IF planned.raised THEN BackupPlan(query.text) ELSE planned.searches} :
       \E r \in {result \o PlanStageText(planned) \o <<"---">> \o SearchHeading} :
           /\ calls' = calls \o CallLog("planner", o)
           /\ planRaised' = planned.raised
           /\ planPath' = (IF planned.raised THEN "raised" ELSE planned.path)
           /\ search_plan' = plan
           /\ IF plan = <<>>
              THEN /\ result' = r \o SearchCompleteText(0)
                   /\ stages' = stages \o <<"Search", "Write">>
                   /\ pc' = "write"
              ELSE /\ result' = r
                   /\ stages' = Append(stages, "Search")
                   /\ pc' = "search"
    /\ UNCHANGED <<envKey, query, trace_id, search_results, report, display, loop,
                   searched, writeRaised, served, searchRaised, textbox, event, before>>
    /\ UNCHANGED xVars
    /\ UNCHANGED cVars

\* One iteration of perform_searches: lines 363-366, and 301-308 after the last one
SearchStep ==
    /\ pc = "search"
    /\ LET item == NextTask(search_plan, search_results) IN
       \E o \in SummaryOutcomes(item) :
        LET rs == Append(search_results, perform_searches(item, o)) IN
           /\ searched' = Append(searched, item.query)
           /\ calls' = calls \o CallLog("search", o)
           /\ searchRaised' = (IF SummarizeRaises(item, o)
                               THEN searchRaised \cup {Len(rs)} ELSE searchRaised)
           /\ search_results' = rs
           /\ IF Len(rs) = Len(search_plan)
              THEN /\ result' = result \o SearchCompleteText(Len(rs))
                   /\ stages' = Append(stages, "Write")
                   /\ pc' = "write"
              ELSE UNCHANGED <<result, stages, pc>>
    /\ UNCHANGED <<envKey, query, trace_id, search_plan, report, display, loop,
                   planRaised, writeRaised, served, planPath, textbox, event, before>>
    /\ UNCHANGED xVars
    /\ UNCHANGED cVars

\* The writer's call returns: lines 311-344, then run_research_complete's
\* "finally: loop.close()" and handle_research's return
WriteStage ==
    /\ pc = "write"
    /\ \E o \in Outcomes(PipeRespLen) :
       \E rep \in {write_report(query.text, search_results, run(o))} :
       \E out \in {WriteStageResult(result, query.text, search_results, rep)} :
           /\ calls' = calls \o CallLog("writer", o)
           /\ report' = rep
           /\ writeRaised' = rep.raised
           /\ result' = out
           /\ display' = Shown(out)
           /\ served' = IF out = ResearchErrorMsg("TypeError")
                        THEN "research_error" ELSE "pipeline"
           /\ stages' = IF out = ResearchErrorMsg("TypeError")
                        THEN stages ELSE Append(stages, "Render")
    /\ loop' = "closed"
    /\ pc' = "serving"
    /\ UNCHANGED <<envKey, query, trace_id, search_plan, search_results, searched, planRaised,
                   planPath, searchRaised, textbox, event, before>>
    /\ UNCHANGED xVars
    /\ UNCHANGED cVars

\* clear_button.click: handle_clear, outputs=[query_textbox, report_output]
Clear ==
    /\ pc = "serving"
    /\ textbox' = handle_clear.textbox
    /\ display' = Shown(handle_clear.output)
    /\ event' = "clear"
    /\ UNCHANGED <<pc, envKey, query, trace_id, result, search_plan, search_results, report,
                   loop, stages, calls, searched, planRaised, writeRaised, served,
                   planPath, searchRaised, before>>
    /\ UNCHANGED xVars
    /\ UNCHANGED cVars

Next ==
    Startup \/ EnvironChange \/ Submit \/ PlanStage \/ SearchStep \/ WriteStage \/ Clear

Spec == Init /\ [][Next]_vars

\* ----------------------------------------------- extractor harness -------
ExtractorInputs == {<<"solar energy">>, <<"W", "ai">>}
Schemas == {"WebSearchPlan", "ReportData"}

InitX ==
    /\ pc = "boot"
    /\ envKey = TRUE
    /\ query = None
    /\ trace_id = "none"
    /\ result = <<>>
    /\ search_plan = <<>>
    /\ search_results = <<>>
    /\ report = NoReport
    /\ display = Shown(WelcomeMsg)
    /\ loop = "none"
    /\ stages = <<>>
    /\ calls = <<>>
    /\ searched = <<>>
    /\ planRaised = FALSE
    /\ writeRaised = FALSE
    /\ served = "none"
    /\ planPath = "none"
    /\ searchRaised = {}
    /\ textbox = Str(<<>>)
    /\ event = "none"
    /\ before = "first"
    /\ xSchema \in Schemas
    /\ xInput \in ExtractorInputs
    /\ xOutcome \in Outcomes(MaxRespLen)
    /\ xResponse = None
    /\ xResult = NoReport
    /\ xDone = FALSE
    /\ req = [t \in Threads |-> IdleReq]

\* StructuredGroqAgent.run_structured: line 93 (self.run) and lines 95-141
Extract ==
    /\ ~xDone
    /\ xResponse' = run(xOutcome)
    /\ xResult' = run_structured(xSchema, xInput, run(xOutcome))
    /\ xDone' = TRUE
    /\ UNCHANGED <<xSchema, xInput, xOutcome>>
    /\ UNCHANGED pipeVars
    /\ UNCHANGED cVars

NextX == Extract

SpecX == InitX /\ [][NextX]_vars

\* ------------------------------------------------- concurrent requests ---
\* Two requests served at the same time, each in its own thread with its own
\* ResearchManager, event loop and locals; the steps of the two interleave at
\* every await.

\* the topic typed into each request, or a blank query
ThreadTopic(t) == IF t = 1 THEN Topic1 ELSE Topic2
ConcQueries(t) == {Str(<<"W">>), Str(ThreadTopic(t))}

\* uuid4 of each request
ThreadTraceId(t) == IF t = 1 THEN "id1" ELSE "id2"

\* mutant: one text accumulator shared by all requests
TextOf_Shared(r, t) == r[1].result

\* the text a request has built so far: the local "result" of its own call
TextOf(r, t) == r[t].result

InitC ==
    /\ pc = "serving"
    /\ envKey = TRUE
    /\ query = None
    /\ trace_id = "none"
    /\ result = <<>>
    /\ search_plan = <<>>
    /\ search_results = <<>>
    /\ report = NoReport
    /\ display = Shown(WelcomeMsg)
    /\ loop = "none"
    /\ stages = <<>>
    /\ calls = <<>>
    /\ searched = <<>>
    /\ planRaised = FALSE
    /\ writeRaised = FALSE
    /\ served = "none"
    /\ planPath = "none"
    /\ searchRaised = {}
    /\ textbox = Str(<<>>)
    /\ event = "none"
    /\ before = "first"
    /\ xSchema = "WebSearchPlan"
    /\ xInput = <<>>
    /\ xOutcome = Reply(None)
    /\ xResponse = None
    /\ xResult = NoReport
    /\ xDone = FALSE
    /\ req = [t \in Threads |-> IdleReq]

\* handle_research in thread t, to the first await of run_async_research
CSubmit(t) ==
    /\ req[t].pc = "idle"
    /\ \E q \in ConcQueries(t) :
       \E h \in {handle_research(q, envKey)} :
       \E c \in {IF h = "run_research_complete" THEN run_research_complete(q, envKey) ELSE h} :
           req' = [req EXCEPT ![t] =
                     IF c = "pipeline"
                     THEN [@ EXCEPT !.pc = "plan", !.query = q, !.loop = "open",
                                    !.trace_id = ThreadTraceId(t),
                                    !.result = StartResult(ThreadTraceId(t))]
                     ELSE [@ EXCEPT !.pc = "done", !.query = q, !.served = c,
                                    !.out = IF c = "raise" THEN Fault
                                            ELSE Shown(EarlyText(c))]]
    /\ UNCHANGED pipeVars
    /\ UNCHANGED xVars

\* the planner's call of thread t's request returns
CPlan(t) ==
    /\ req[t].pc = "plan"
    /\ \E o \in Outcomes(ConcRespLen) :
       \E planned \in {plan_searches(req[t].query.text, run(o))} :
       \E plan \in {IF planned.raised THEN BackupPlan(req[t].query.text)
                    ELSE planned.searches} :
       \E r \in {TextOf(req, t) \o PlanStageText(planned) \o <<"---">> \o SearchHeading} :
           req' = [req EXCEPT ![t] =
                     [@ EXCEPT !.planRaised = planned.raised,
                               !.search_plan = plan,
                               !.result = IF plan = <<>> THEN r \o SearchCompleteText(0)
                                          ELSE r,
                               !.pc = IF plan = <<>> THEN "write" ELSE "search"]]
    /\ UNCHANGED pipeVars
    /\ UNCHANGED xVars

\* one summary call of thread t's request returns
CSearch(t) ==
    /\ req[t].pc = "search"
    /\ \E item \in {NextTask(req[t].search_plan, req[t].search_results)} :
       \E o \in SummaryOutcomes(item) :
       \E rs \in {Append(req[t].search_results, perform_searches(item, o))} :
           req' = [req EXCEPT ![t] =
                     [@ EXCEPT !.search_results = rs,
                               !.summaries = Append(@, run(o)),
                               !.result = IF Len(rs) = Len(req[t].search_plan)
                                          THEN TextOf(req, t) \o SearchCompleteText(Len(rs))
                                          ELSE TextOf(req, t),
                               !.pc = IF Len(rs) = Len(req[t].search_plan)
                                      THEN "write" ELSE "search"]]
    /\ UNCHANGED pipeVars
    /\ UNCHANGED xVars

\* the writer's call of thread t's request returns; loop.close(); the return
CWrite(t) ==
    /\ req[t].pc = "write"
    /\ \E o \in Outcomes(ConcRespLen) :
       \E rep \in {write_report(req[t].query.text, req[t].search_results, run(o))} :
       \E out \in {WriteStageResult(TextOf(req, t), req[t].query.text,
                                     req[t].search_results, rep)} :
           req' = [req EXCEPT ![t] =
                     [@ EXCEPT !.report = rep,
                               !.result = out,
                               !.out = Shown(out),
                               !.served = IF out = ResearchErrorMsg("TypeError")
                                          THEN "research_error" ELSE "pipeline",
                               !.loop = "closed",
                               !.pc = "done"]]
    /\ UNCHANGED pipeVars
    /\ UNCHANGED xVars

NextC == \E t \in Threads : CSubmit(t) \/ CPlan(t) \/ CSearch(t) \/ CWrite(t)

SpecC == InitC /\ [][NextC]_vars

\* ============================================================ claims ====
RequestEnded == pc = "serving" /\ served # "none" /\ event = "research"
RanPipeline == RequestEnded /\ served \in {"pipeline", "research_error"}
AllCallsFailed == calls # <<>> /\ \A i \in 1..Len(calls) : calls[i].failed

\* position of the first occurrence of tok in text after position k, 0 if none
Pos(text, tok, k) == FirstAfter(text, {tok}, k)

\* C1: whatever the topic and whatever the remote calls do, the request
\* handler returns a string; no exception reaches the form.
C1_HandlerReturnsString == RequestEnded => display.kind = "string"

\* the deepest recovery: the writer and a summary both came back null, so the
\* Write stage's handler raised again and the request-level handler answered
C1_Witness ==
    /\ RequestEnded /\ served = "research_error" /\ writeRaised
    /\ display = Shown(ResearchErrorMsg("TypeError"))

\* C2: for any input and any value the Completion Client returns,
\* run_structured returns an instance of the requested shape and never raises.
C2_AlwaysTypedInstance == xDone => (~xResult.raised /\ xResult.kind = xSchema)

\* the object the response text parses to, by the extractor's own steps
ParsedData(response) ==
    IF response.kind = "str" /\ ExtractJsonStr(response.text).ok
    THEN json_loads(ExtractJsonStr(response.text).text)
    ELSE [ok |-> FALSE, data |-> NoFields]

\* C3: a response that parses to an object with both a "properties" and a
\* "type" key yields the shape's canned fallback, also when the object holds
\* every required field of the shape.
C3_SchemaEchoGivesFallback ==
    (/\ xDone
     /\ ParsedData(xResponse).ok
     /\ ParsedData(xResponse).data.hasProperties
     /\ ParsedData(xResponse).data.hasType)
    => (/\ xResult.path = "fallback"
        /\ xResult.kind = xSchema
        /\ xSchema = "WebSearchPlan" => xResult.searches = FallbackPlanTasks(xInput)
        /\ xSchema = "ReportData" =>
             xResult.follow_up_questions = FallbackQuestions(xInput))

C3_Witness ==
    /\ xDone /\ xSchema = "WebSearchPlan"
    /\ xResponse = Str(<<"P", "O_planEcho">>)
    /\ ParsedData(xResponse).data.searchesOK
    /\ xResult.path = "fallback"

\* the response is exactly a fence tagged as JSON around the text of a plan object
PlanObjects == {o \in Objects \cup {"O_planTick"} : ObjData(o).searchesOK}
IsJsonFenced(response, o) ==
    response = Str(<<"FJ">> \o ExpandAtom(o) \o <<"F">>)

\* C4 (as stated): a JSON-tagged fence around a valid plan object yields a
\* WebSearchPlan with exactly the embedded tasks.
C4_FencedPlanExact ==
    \A o \in PlanObjects :
        (xDone /\ xSchema = "WebSearchPlan" /\ IsJsonFenced(xResponse, o))
        => (xResult.kind = "WebSearchPlan" /\ xResult.searches = ObjData(o).searches)

\* C4 (amended): ... provided the object does not carry both a "properties"
\* and a "type" key and its text holds no ``` ; then the plan returned has
\* exactly the embedded tasks, built from the parsed object.
C4_FencedPlanExactUnlessEchoOrFence ==
    \A o \in PlanObjects :
        (/\ xDone /\ xSchema = "WebSearchPlan" /\ IsJsonFenced(xResponse, o)
         /\ ~(ObjData(o).hasProperties /\ ObjData(o).hasType)
         /\ ~Contains(ExpandAtom(o), <<"F">>))
        => (/\ xResult.kind = "WebSearchPlan"
            /\ xResult.path = "parsed"
            /\ xResult.searches = ObjData(o).searches)

C4_Witness ==
    /\ xDone /\ xSchema = "WebSearchPlan"
    /\ IsJsonFenced(xResponse, "O_planProps")
    /\ xResult.searches = PlanTasks

\* C5: when every completion call of a request fails, the request still
\* returns a non-empty markdown string that holds the topic and a
\* follow-up-questions section.
C5_AllCallsFailStillReport ==
    (RanPipeline /\ AllCallsFailed)
    => (/\ display.kind = "string"
        /\ display.text # <<>>
        /\ Contains(display.text, query.text)
        /\ Contains(display.text, FollowUpHeading))

C5_Witness ==
    /\ RanPipeline /\ AllCallsFailed /\ Len(calls) = 5
    /\ query = Str(Topic1)
    /\ Contains(display.text, FollowUpHeading)

\* the output shows a rendered report / the output is an error text
ShowsReport(text) == Contains(text, FinalHeading)
IsErrorText(text) ==
    \/ text \in {InputRequiredMsg, ConfigErrorMsg, InputRequiredMsg2, MissingKeyMsg}
    \/ text = ResearchErrorMsg("TypeError")
    \/ Contains(text, <<"Report generation issue:">>)

\* C6: every request ends with exactly one of: a ReportDocument rendered
\* into the output, or a textual error report.
C6_ReportXorError ==
    (RequestEnded /\ display.kind = "string")
    => (/\ ShowsReport(display.text) # IsErrorText(display.text)
        /\ ShowsReport(display.text) =>
             (/\ report.kind = "ReportData"
              /\ Contains(display.text, FinalHeading \o report.markdown_report)))

C6_Witness ==
    /\ RequestEnded /\ served = "pipeline" /\ writeRaised
    /\ IsErrorText(display.text) /\ ~ShowsReport(display.text)
    /\ Len(search_results) = 3

\* session heading, then the three stage sections in order
ProgressInOrder(text) ==
    /\ text # <<>> /\ text[1] = "Research Session:"
    /\ LET p == Pos(text, PlanHeading[1], 1)
           s == Pos(text, SearchHeading[1], p)
           w == Pos(text, WriteHeading[1], s)
       IN p > 0 /\ s > 0 /\ w > 0

\* after the Write section: a rule, the final report heading and the body
BodyAfterRule(text, body) ==
    LET w == Pos(text, WriteHeading[1], 0)
        f == Pos(text, FinalHeading[1], w)
    IN /\ w > 0 /\ f > 1
       /\ text[f - 1] = "---"
       /\ SubSeq(text, f + 1, f + Len(body)) = body

\* a follow-up-questions section after the final report heading
FollowUpsAfterBody(text) ==
    LET f == Pos(text, FinalHeading[1], 0)
    IN f > 0 /\ Pos(text, FollowUpHeading[1], f) > 0

\* C7 (as stated): every output of a request that ran the pipeline and did
\* not end in the total-failure block has, in order, the session heading, the
\* stage sections, a rule, the report body and a follow-up-questions section.
C7_OutputStructure ==
    (RanPipeline /\ served = "pipeline")
    => (/\ ProgressInOrder(display.text)
        /\ BodyAfterRule(display.text, report.markdown_report)
        /\ FollowUpsAfterBody(display.text))

\* C7 (amended): the session heading and the stage sections are always
\* there in order; when the Write stage returned a report, a rule and the
\* report body follow, and the follow-up-questions section follows the body
\* exactly when the report's list of questions is not empty; when the Write
\* stage raised, the output has neither the report body nor that section.
C7_OutputStructureByWriteResult ==
    (RanPipeline /\ served = "pipeline")
    => (/\ ProgressInOrder(display.text)
        /\ ~writeRaised =>
             (/\ BodyAfterRule(display.text, report.markdown_report)
              /\ FollowUpsAfterBody(display.text) <=> report.follow_up_questions # <<>>)
        /\ writeRaised =>
             (/\ ~Contains(display.text, FinalHeading)
              /\ ~Contains(display.text, FollowUpHeading)))

C7_Witness ==
    /\ RanPipeline /\ served = "pipeline" /\ ~writeRaised
    /\ report.path = "parsed" /\ report.follow_up_questions = <<>>
    /\ BodyAfterRule(display.text, report.markdown_report)
    /\ ~Contains(display.text, FollowUpHeading)

\* C8: without the credential at startup the form still loads and serves
\* (and answers every request with the configuration error).
C8_FormLoadsWithoutKey == (pc # "boot" /\ ~envKey) => pc = "serving"

\* a request submitted while the form is idle and the credential is absent
SubmitWithoutKey ==
    pc = "serving" /\ ~envKey /\ ~envKey' /\ event' = "research" /\ query'.kind = "str"
NothingRan ==
    /\ pc' = "serving" /\ stages' = <<>> /\ calls' = <<>> /\ searched' = <<>>
    /\ loop' = "none"

C10_RunReturnsString ==
    xDone => (/\ xResponse.kind = "str"
              /\ xOutcome.kind = "ok" => xResponse = xOutcome.content
              /\ xOutcome.kind = "raise" =>
                   (xResponse.text # <<>> /\ Head(xResponse.text) = "Error:"))

\* ---------------------------------------------------------------------------
\* C11
\* ---------------------------------------------------------------------------

\* A step of the clear handler
ClearStep == event # "clear" /\ event' = "clear"

\* The output of a finished pipeline request, assembled from nothing but the
\* request's own topic, session id and the values its own calls produced
Assemble ==
    LET planText == IF planRaised
                    THEN <<"Planning issue:", "TypeError", "Using backup search plan...">>
                    ELSE <<"Search Plan Created", ToString(Len(search_plan))>>
                             \o Numbered("plan", search_plan, 1)
        progress == SessionHeading(trace_id) \o PlanHeading \o planText \o <<"---">>
                        \o SearchHeading \o SearchCompleteText(Len(search_plan))
    IN  WriteStageResult(progress, query.text, search_results, report)

\* C11: a clear empties the topic input, shows the fixed ready message and leaves
\* every value of the orchestrator alone; and the output of a pipeline request is
\* assembled from that request's own topic, session id and call results only,
\* whatever runs and clears came before it.
C11_ClearResetsDisplayOnly ==
    [][ /\ ClearStep =>
            /\ textbox' = Str(<<>>)
            /\ display' = Shown(ReadyMsg)
            /\ UNCHANGED <<pc, envKey, query, trace_id, result, search_plan, search_results,
                           report, loop, stages, calls, searched, served>>
        /\ RanPipeline' => display'.text = Assemble'
      ]_vars

\* a pipeline request that followed an earlier run and a clear has ended
C11_Witness ==
    /\ RanPipeline
    /\ before = "run and clear"
    /\ served = "pipeline"
    /\ Len(search_results) > 0

\* ---------------------------------------------------------------------------
\* C12
\* ---------------------------------------------------------------------------

\* valid plan objects that are no schema echo and hold no fence in their text
CleanPlanObjects ==
    {o \in Objects : ObjData(o).searchesOK /\ ~(ObjData(o).hasProperties /\ ObjData(o).hasType)}

\* responses holding the object o with prose around it, with a second brace
\* group after it, or behind a fence marker that is never closed
WithProse(o) == {Str(<<"P", o>>), Str(<<o, "P">>), Str(<<"P", o, "P">>)}
WithSecondGroup(o) == {Str(<<o, "P", "O_bad">>), Str(<<"P", o, "O_bad">>)}
WithOpenFence(o) == {Str(<<"F", o>>), Str(<<"FJ", o>>), Str(<<"P", "F", o>>)}

\* C12 (as stated): a response that holds a valid plan object is parsed into a
\* WebSearchPlan with that object's tasks also when the object has prose before
\* or after it, is followed by another brace group, or comes after a fence
\* marker with no closing fence.
C12_ValidObjectParsedDespiteNoise ==
    \A o \in CleanPlanObjects :
        (/\ xDone /\ xSchema = "WebSearchPlan"
         /\ xResponse \in WithProse(o) \cup WithSecondGroup(o) \cup WithOpenFence(o))
        => (/\ xResult.kind = "WebSearchPlan"
            /\ xResult.path = "parsed"
            /\ xResult.searches = ObjData(o).searches)

\* ---------------------------------------------------------------------------
\* C13
\* ---------------------------------------------------------------------------

CallsOf(agent) == SelectSeq(calls, LAMBDA c : c.agent = agent)

\* C13 (as stated): when the Plan stage's extraction takes the fallback, the plan
\* has exactly the 3 tasks "<topic> overview", "<topic> recent developments",
\* "<topic> analysis", in this order, and the fallback made no further
\* completion call (the stage's one call is the only planner call).
C13_PlanFallbackFromTopic ==
    planPath = "fallback"
    => (/\ Len(search_plan) = 3
        /\ search_plan = FallbackPlanTasks(query.text)
        /\ Len(CallsOf("planner")) = 1)

\* ---------------------------------------------------------------------------
\* C14
\* ---------------------------------------------------------------------------

\* the agents of the calls a request with this plan makes, in order
ExpectedCalls(plan) ==
    <<"planner">> \o [i \in 1..Len(plan) |-> "search"] \o <<"writer">>

\* the queries of the first n tasks of the plan
QueriesOf(plan, n) == [i \in 1..n |-> plan[i].query]

\* C14 (as stated): a request past the input and credential checks runs Plan,
\* Search, Write, Render in this order, each once, also when a stage failed; it
\* makes one completion call for Plan, then one per planned task in plan order,
\* then one for Write, and repeats no call.
C14_StagesInOrderOneCallEach ==
    /\ pc = "plan" => (stages = <<"Plan">> /\ calls = <<>>)
    /\ pc = "search" =>
         /\ stages = <<"Plan", "Search">>
         /\ Len(calls) = 1 + Len(search_results)
         /\ searched = QueriesOf(search_plan, Len(search_results))
    /\ pc = "write" =>
         /\ stages = <<"Plan", "Search", "Write">>
         /\ Len(calls) = 1 + Len(search_plan)
    /\ RanPipeline =>
         /\ stages = <<"Plan", "Search", "Write", "Render">>
         /\ [i \in 1..Len(calls) |-> calls[i].agent] = ExpectedCalls(search_plan)
         /\ searched = QueriesOf(search_plan, Len(search_plan))

\* ---------------------------------------------------------------------------
\* C15
\* ---------------------------------------------------------------------------

\* the values the summarizer can return for a task
SummariesFor(item) == {search_and_summarize(item, o) : o \in SummaryOutcomes(item)}

SourceEntryPositions(text) == {i \in DOMAIN text : text[i] = "### Source"}

\* C16 (as stated): when the Write stage raises, the request still returns its
\* text, which holds the topic-summary heading and one labelled source entry per
\* summary, in order, and holds neither the final report heading nor the body of
\* the Extractor's fallback report.
C16_WriteFailureGivesSummaryBlock ==
    (RanPipeline /\ writeRaised)
    => (/\ display.kind = "string"
        /\ Contains(display.text, <<"## Research Summary for:">> \o query.text)
        /\ Cardinality(SourceEntryPositions(display.text)) = Len(search_results)
        /\ \A p \in SourceEntryPositions(display.text) :
             LET i == Cardinality({q \in SourceEntryPositions(display.text) : q <= p})
                 body == Slice(search_results[i].text, SourceSliceLen)
             IN /\ search_results[i].kind = "str"
                /\ display.text[p + 1] = ToString(i)
                /\ SubSeq(display.text, p + 2, p + 1 + Len(body)) = body
        /\ ~Contains(display.text, FinalHeading)
        /\ ~Contains(display.text, <<"# Research Report:">> \o query.text))

\* ---------------------------------------------------------------------------
\* C17
\* ---------------------------------------------------------------------------

\* C17: when the Plan stage raised, the plan is the canned one of exactly 3
\* tasks whose queries are the topic followed by a fixed suffix, the request
\* goes on to the Search stage, and it ends only after all 3 tasks were
\* searched and the Write stage made its call.
C17_PlanFailureGivesBackupPlan ==
    planRaised
    => (/\ Len(search_plan) = 3
        /\ <<search_plan[1].query, search_plan[2].query, search_plan[3].query>>
             = << query.text \o <<"overview">>,
                  query.text \o <<"trends 2024">>,
                  query.text \o <<"analysis">> >>
        /\ pc \in {"search", "write", "serving"}
        /\ SubSeq(stages, 1, 2) = <<"Plan", "Search">>
        /\ pc = "serving" =>
             /\ SubSeq(stages, 1, 3) = <<"Plan", "Search", "Write">>
             /\ Len(search_results) = 3
             /\ Len(CallsOf("search")) = 3
             /\ Len(CallsOf("writer")) = 1
             /\ display.kind = "string")

\* a request whose Plan stage raised has ended with its rendered output
C17_Witness ==
    /\ RanPipeline /\ planRaised
    /\ served = "pipeline"
    /\ Contains(display.text, <<"Using backup search plan...">>)
    /\ Len(search_results) = 3

\* ---------------------------------------------------------------------------
\* C18
\* ---------------------------------------------------------------------------

\* what the Completion Client returns when the call fails with the message "P"
ErrorString == Str(<<"Error:", "P">>)

\* C18: the summary collected for a task is the Completion Client's return value
\* as it is: the "Error:" string when the task's call failed, the reply's content
\* otherwise, never the per-task placeholder; and each summary is handed to the
\* Write stage as "Source i: <summary>" (seen in the title of the writer's
\* fallback report, which embeds the writer's input).
C18_SummaryIsClientTextVerbatim ==
    \A i \in 1..Len(search_results) :
        /\ calls[1 + i].agent = "search"
        /\ calls[1 + i].failed => search_results[i] = ErrorString
        /\ ~calls[1 + i].failed =>
             search_results[i] \in {Str(<<"Summary of">> \o search_plan[i].query), None}
        /\ search_results[i] # SearchPlaceholder(search_plan[i])
        /\ (RanPipeline /\ report.kind = "ReportData" /\ report.path = "fallback") =>
             Contains(report.title, <<"Source", ToString(i)>> \o PyStr(search_results[i]))

\* a failed task's "Error:" string was collected and reached the writer's input
C18_Witness ==
    /\ RanPipeline
    /\ Len(search_results) = 3
    /\ calls[2].failed /\ ~calls[3].failed
    /\ search_results[1] = ErrorString
    /\ report.kind = "ReportData" /\ report.path = "fallback"
    /\ Contains(report.title, <<"Source", "1", "Error:", "P">>)

\* ---------------------------------------------------------------------------
\* C19
\* ---------------------------------------------------------------------------

\* The progress text of a request with the locals r once its Search stage has
\* ended, assembled from its own topic, session id and plan
ProgressOf(r) ==
    LET planText == IF r.planRaised
                    THEN <<"Planning issue:", "TypeError", "Using backup search plan...">>
                    ELSE <<"Search Plan Created", ToString(Len(r.search_plan))>>
                             \o Numbered("plan", r.search_plan, 1)
    IN  SessionHeading(r.trace_id) \o PlanHeading \o planText \o <<"---">>
            \o SearchHeading \o SearchCompleteText(Len(r.search_plan))

\* The output of a finished pipeline request: its progress text and what its
\* Write stage made of the values its own summary calls returned
AssembleOf(r) == WriteStageResult(ProgressOf(r), r.query.text, r.summaries, r.report)

\* the tokens that occur only in the other thread's topic and session id
ForeignTokens(t) ==
    {ThreadTraceId(u) : u \in Threads \ {t}}
      \cup {ThreadTopic(u)[Len(ThreadTopic(u))] : u \in Threads \ {t}}

Running(r) == r.pc \in {"plan", "search", "write"}
Rendered(r) == r.pc = "done" /\ r.served \in {"pipeline", "research_error"}

\* C19: under every interleaving of two requests, each request has its own event
\* loop, open exactly while its pipeline runs and closed when it has ended (none
\* on the early returns), collects exactly the summaries its own calls returned,
\* and its text and output are the ones assembled from its own topic, session id
\* and call results, holding nothing of the other request's topic or session id.
C19_ConcurrentRequestsIndependent ==
    \A t \in Threads :
        LET r == req[t] IN
        /\ r.pc = "idle" => r.loop = "none"
        /\ Running(r) => r.loop = "open"
        /\ r.pc = "done" => r.loop = (IF Rendered(r) THEN "closed" ELSE "none")
        /\ r.search_results = r.summaries
        /\ r.pc = "write" => r.result = ProgressOf(r)
        /\ Rendered(r) => r.out = Shown(AssembleOf(r))
        /\ \A i \in DOMAIN r.result : r.result[i] \notin ForeignTokens(t)

\* the two requests are in flight at the same time, each with its three summaries
\* collected and its own progress text
C19_Witness ==
    /\ \A t \in Threads :
         /\ req[t].pc = "write"
         /\ Len(req[t].search_results) = 3
         /\ Contains(req[t].result, ThreadTopic(t))
    /\ req[1].search_results # req[2].search_results

====
